---- MODULE Spec2Model ----
(***************************************************************************)
(* Model of raider.application.Application: the per-project orchestrator   *)
(* that resolves the active user, runs authentication against it and       *)
(* persists the project file (_project.hy) and the session file            *)
(* (_userdata.hy).                                                         *)
(*                                                                         *)
(* Optional Python values (None or a value) are modelled as <<>> / <<v>>.  *)
(* A file is [exists, exprs]: the sequence of hy expressions it holds.     *)
(***************************************************************************)
EXTENDS Naturals, Sequences, FiniteSets, TLC

\* ------------------------------------------------------------------ bounds
\* Largest number of users a project's _users configuration holds.
MaxUsers == 2

\* Usernames (the empty string is a str like any other).
Names == {"", "alice", "bob"}
\* Project names; "p" is the project under test, "q" a second project.
Projects == {"p", "q"}
\* Instances (processes) holding an orchestrator.
Instances == {1, 2}
\* Keys and values of the cookie / header / data mappings.
Keys == {"k"}
Vals == {"", "a b)"}

None == <<>>
Some(x) == <<x>>
Opt(S) == {None} \cup {Some(x) : x \in S}

\* Python truthiness of an Optional[str]: None and "" are both falsy.
Truthy(o) == o # None /\ o[1] # ""

\* ------------------------------------------------------------------ values
EmptyDict == [k \in {} |-> ""]
Dicts == UNION {[K -> Vals] : K \in SUBSET Keys}

\* A user record: the three mappings a User exposes.
EmptyUser == [cookies |-> EmptyDict, headers |-> EmptyDict, data |-> EmptyDict]
\* What one authentication run can leave in the user record it is given.
RunOutcomes ==
    { [cookies |-> [k \in {"k"} |-> "a b)"], headers |-> EmptyDict,
       data |-> [k \in {"k"} |-> ""]],
      [cookies |-> EmptyDict, headers |-> [k \in {"k"} |-> ""],
       data |-> [k \in {"k"} |-> "a b)"]] }

\* ------------------------------------------------------------------ files
Absent == [exists |-> FALSE, exprs |-> <<>>]
File(exprs) == [exists |-> TRUE, exprs |-> exprs]
\* One hy expression of a file: (setv n v), the empty form (), or text that
\* the reader rejects.
Setv(n, v) == [kind |-> "setv", n |-> n, v |-> v]
EmptyForm == [kind |-> "empty", n |-> "", v |-> EmptyDict]
Malformed == [kind |-> "malformed", n |-> "", v |-> EmptyDict]

VARIABLES
    cfg,        \* cfg[pr]: the project's own definition files (never written here)
    globalSel,  \* the persisted globally selected project (Config file)
    projFile,   \* projFile[pr]: contents of <pr>/_project.hy
    sessFile,   \* sessFile[pr]: contents of <pr>/_userdata.hy
    app,        \* app[i]: the Application object instance i holds, if any
    last        \* what the last operation did (observation only)

vars == <<cfg, globalSel, projFile, sessFile, app, last>>

\* ------------------------------------------------------------------ config
RequiredKeys == {"_users", "_authentication", "_base_url"}
OptionalKeys == {"_functions"}

\* The Application attributes of one constructed orchestrator.
NoApp == [st |-> "none", name |-> "", users |-> <<>>, active |-> "",
          functions |-> FALSE]

\* create_hy_expression(variable, value): one self-contained binding
\* expression that reads back as the same variable and the same value.
create_hy_expression(variable, value) == Setv(variable, value)

\* The value the expressions of a file bind to name n (the last binding
\* wins), None when they bind none.
RECURSIVE LastBinding(_, _)
LastBinding(exprs, n) ==
    IF exprs = <<>> THEN None
    ELSE LET e == exprs[Len(exprs)]
         IN IF e.kind = "setv" /\ e.n = n THEN Some(e.v)
            ELSE LastBinding(SubSeq(exprs, 1, Len(exprs) - 1), n)

\* Config.load_project(project): the name -> value mapping of the project's
\* definition files plus the _active_user its project file binds, if any.
load_project(pr) ==
    LET au == IF projFile[pr].exists
              THEN LastBinding(projFile[pr].exprs, "_active_user")
              ELSE None
    IN [keys |-> cfg[pr].keys \cup (IF au = None THEN {} ELSE {"_active_user"}),
        users |-> cfg[pr].users,
        default |-> cfg[pr].default,
        active_user |-> au]

\* UserStore(output["_users"]): every configured user with empty
\* cookies, headers and data.
UserStore(usernames) == [u \in usernames |-> EmptyUser]

\* UserStore.__getitem__(username) over the usernames the store holds: the
\* record's username, or a lookup error for a username it does not hold.
Lookup(usernames, username) ==
    IF username \in usernames
    THEN [err |-> "none", user |-> username]
    ELSE [err |-> "LookupError", user |-> ""]

\* Mutant: the override is never read.
ResolveActive_NoOverride(output) == [err |-> "none", user |-> output.default]

\* Mutant: without an override, the first user rather than the default.
ResolveActive_First(output) ==
    IF Truthy(output.active_user)
    THEN Lookup(output.users, output.active_user[1])
    ELSE [err |-> "none", user |-> CHOOSE u \in output.users : TRUE]

\* Mutant: an override naming an unknown user falls back to the default.
ResolveActive_Fallback(output) ==
    IF Truthy(output.active_user) /\ output.active_user[1] \in output.users
    THEN [err |-> "none", user |-> output.active_user[1]]
    ELSE [err |-> "none", user |-> output.default]

\* Mutant: the override is taken without looking it up in the store.
ResolveActive_NoLookup(output) ==
    IF Truthy(output.active_user)
    THEN [err |-> "none", user |-> output.active_user[1]]
    ELSE [err |-> "none", user |-> output.default]

\* Lines 76-80: the active user a construction resolves.
ResolveActive(output) ==
    LET active_user == output.active_user
    IN IF Truthy(active_user)
       THEN Lookup(output.users, active_user[1])
       ELSE [err |-> "none", user |-> output.default]

\* Mutant: a missing base URL falls back to an empty one.
BuildApp_BaseDefault(pr, output) ==
    IF "_users" \notin output.keys THEN [err |-> "KeyError", app |-> NoApp]
    ELSE LET r == ResolveActive(output)
         IN IF r.err # "none" THEN [err |-> r.err, app |-> NoApp]
            ELSE IF "_authentication" \notin output.keys
                 THEN [err |-> "KeyError", app |-> NoApp]
            ELSE [err |-> "none",
                  app |-> [st |-> "built", name |-> pr,
                           users |-> UserStore(output.users),
                           active |-> r.user,
                           functions |-> "_functions" \in output.keys]]

\* Lines 74-86: the attributes construction computes from the loaded
\* project, or the error it raises first.
BuildApp(pr, output) ==
    IF "_users" \notin output.keys THEN [err |-> "KeyError", app |-> NoApp]
    ELSE LET r == ResolveActive(output)
         IN IF r.err # "none" THEN [err |-> r.err, app |-> NoApp]
            ELSE IF "_authentication" \notin output.keys
                 THEN [err |-> "KeyError", app |-> NoApp]
            ELSE IF "_base_url" \notin output.keys
                 THEN [err |-> "KeyError", app |-> NoApp]
            ELSE [err |-> "none",
                  app |-> [st |-> "built", name |-> pr,
                           users |-> UserStore(output.users),
                           active |-> r.user,
                           functions |-> "_functions" \in output.keys]]

\* The record of one operation, for the properties to read.
\* op(arg) by instance inst ended with err ("none": it returned), invoked the
\* authentication run with the users ran, wrote the files wrote, and its
\* evaluations bound the names of bound; prev is the operation before it.
Op(op, i, arg, err, ran, wrote, bound) ==
    [op |-> op, inst |-> i, arg |-> arg, err |-> err, ran |-> ran,
     wrote |-> wrote, bound |-> bound,
     prev |-> [op |-> last.op, err |-> last.err, ran |-> last.ran]]

\* Lines 67-72: the project a construction works on and persists as the
\* global selection.
SelectProject(name) == IF Truthy(name) THEN name[1] ELSE globalSel

\* Mutant: the selection is persisted only once the construction succeeded.
Construct_PersistOnSuccess(i, name) ==
    LET pr == SelectProject(name)
        r == BuildApp(pr, load_project(pr))
    IN /\ globalSel' = IF r.err = "none" THEN pr ELSE globalSel
       /\ app' = [app EXCEPT ![i] = r.app]
       /\ last' = Op("construct", i, name, r.err, <<>>,
                     IF Truthy(name) /\ r.err = "none" THEN {"global"} ELSE {},
                     <<>>)
       /\ UNCHANGED <<cfg, projFile, sessFile>>

\* Application.__init__(name)
Construct(i, name) ==
    LET pr == SelectProject(name)
        r == BuildApp(pr, load_project(pr))
    IN /\ globalSel' = pr
       /\ app' = [app EXCEPT ![i] = r.app]
       /\ last' = Op("construct", i, name, r.err, <<>>,
                     IF Truthy(name) THEN {"global"} ELSE {}, <<>>)
       /\ UNCHANGED <<cfg, projFile, sessFile>>

\* ---------------------------------------------------------- authentication
\* Mutant: the username argument is never read.
AuthTarget_Ignore(a, username) == [err |-> "none", user |-> a.active]

\* Mutant: an unknown username is skipped instead of looked up.
AuthTarget_Skip(a, username) ==
    IF Truthy(username) /\ username[1] \in DOMAIN a.users
    THEN [err |-> "none", user |-> username[1]]
    ELSE [err |-> "none", user |-> a.active]

\* Lines 89-90: the outcome of the username argument: the user the run is to
\* be executed against, or the lookup error of self.users[username].
AuthTarget(a, username) ==
    IF Truthy(username)
    THEN Lookup(DOMAIN a.users, username[1])
    ELSE [err |-> "none", user |-> a.active]

\* Mutant: the project file is left as it was.
ProjectFileOf_Stale(a) == projFile[a.name]

\* Mutant: the binding is appended to the file (mode "a") instead of
\* replacing it.
ProjectFileOf_Append(a) ==
    File(projFile[a.name].exprs
         \o <<create_hy_expression("_active_user", a.active)>>)

\* Lines 133-142: the project file write_project_file() leaves.
ProjectFileOf(a) == File(<<create_hy_expression("_active_user", a.active)>>)

\* Authentication.run_all(user, config): the records the run may leave in
\* the user it was given (it may also leave the record as it was).
RunResults(rec) == RunOutcomes \cup {rec}

\* Mutant: the project file is written before the run, whatever its end.
AuthRun_WriteFirst(i, username, t, o, ok) ==
    LET a == [app[i] EXCEPT !.active = t, !.users[t] = o]
    IN /\ app' = [app EXCEPT ![i] = a]
       /\ projFile' = [projFile EXCEPT ![a.name] = ProjectFileOf(a)]
       /\ last' = Op("authenticate", i, username,
                     IF ok THEN "none" ELSE "RunFailed", <<t>>,
                     {"project"}, <<>>)

\* Line 91 (ran) and line 92 (persisted): what authenticate() does once the
\* user is selected; ok is whether run_all returned rather than raised.
AuthRun(i, username, t, o, ok) ==
    LET a == [app[i] EXCEPT !.active = t, !.users[t] = o]
    IN /\ app' = [app EXCEPT ![i] = a]
       /\ projFile' = IF ok THEN [projFile EXCEPT ![a.name] = ProjectFileOf(a)]
                      ELSE projFile
       /\ last' = Op("authenticate", i, username,
                     IF ok THEN "none" ELSE "RunFailed", <<t>>,
                     IF ok THEN {"project"} ELSE {}, <<>>)

\* Mutant: authenticate() also writes the session file after the run.
authenticate_AndSession(i, username) ==
    /\ app[i].st = "built"
    /\ LET r == AuthTarget(app[i], username)
       IN IF r.err # "none"
          THEN /\ last' = Op("authenticate", i, username, r.err, <<>>, {}, <<>>)
               /\ UNCHANGED <<app, projFile, sessFile>>
          ELSE /\ \E o \in RunResults(app[i].users[r.user]), ok \in BOOLEAN :
                     AuthRun(i, username, r.user, o, ok)
               /\ sessFile' = [sessFile EXCEPT ![app[i].name] =
                                  File(<<create_hy_expression("_cookies",
                                     [u \in DOMAIN app'[i].users |->
                                         app'[i].users[u].cookies])>>)]
    /\ UNCHANGED <<cfg, globalSel>>

\* Application.authenticate(username)
authenticate(i, username) ==
    /\ app[i].st = "built"
    /\ LET r == AuthTarget(app[i], username)
       IN IF r.err # "none"
          THEN /\ last' = Op("authenticate", i, username, r.err, <<>>, {}, <<>>)
               /\ UNCHANGED <<app, projFile>>
          ELSE \E o \in RunResults(app[i].users[r.user]), ok \in BOOLEAN :
                  AuthRun(i, username, r.user, o, ok)
    /\ UNCHANGED <<cfg, globalSel, sessFile>>

\* Application.write_project_file()
write_project_file(i) ==
    /\ app[i].st = "built"
    /\ projFile' = [projFile EXCEPT ![app[i].name] = ProjectFileOf(app[i])]
    /\ last' = Op("write_project_file", i, None, "none", <<>>, {"project"}, <<>>)
    /\ UNCHANGED <<cfg, globalSel, sessFile, app>>

\* ------------------------------------------------------------ session file
\* Mutant: a name already bound keeps its first value.
Bind_KeepFirst(ns, n, v) ==
    [x \in DOMAIN ns \cup {n} |-> IF x \in DOMAIN ns THEN ns[x] ELSE v]

\* hy.eval of (setv n v) in the namespace ns of the evaluation.
Bind(ns, n, v) == [x \in DOMAIN ns \cup {n} |-> IF x = n THEN v ELSE ns[x]]

\* Mutant: every reader error is caught like the end of the stream and the
\* loop goes on with the next expression.
RECURSIVE ReadEval_Skip(_, _)
ReadEval_Skip(exprs, ns) ==
    IF exprs = <<>> THEN [err |-> "none", ns |-> ns]
    ELSE LET expr == Head(exprs)
         IN IF expr.kind # "setv" THEN ReadEval_Skip(Tail(exprs), ns)
            ELSE ReadEval_Skip(Tail(exprs), Bind(ns, expr.n, expr.v))

\* Lines 121-131: read and evaluate the expressions one at a time. The end
\* of the stream (EOFError) ends the loop; an expression the reader rejects
\* raises out of it. ns is what the evaluations have bound so far.
RECURSIVE ReadEval(_, _)
ReadEval(exprs, ns) ==
    IF exprs = <<>> THEN [err |-> "none", ns |-> ns]
    ELSE LET expr == Head(exprs)
         IN IF expr.kind = "malformed" THEN [err |-> "ParseFailure", ns |-> ns]
            ELSE IF expr.kind = "empty" THEN ReadEval(Tail(exprs), ns)
            ELSE ReadEval(Tail(exprs), Bind(ns, expr.n, expr.v))

\* Mutant: the file is opened without the os.path.exists test.
LoadSession_NoExistsTest(f) ==
    IF ~f.exists THEN [err |-> "FileNotFoundError", ns |-> <<>>]
    ELSE ReadEval(f.exprs, <<>>)

\* Lines 115-131: the outcome of load_session_file() for a session file.
LoadSession(f) ==
    IF ~f.exists THEN [err |-> "none", ns |-> <<>>]
    ELSE ReadEval(f.exprs, <<>>)

\* Mutant: the loaded bindings are copied into the users of the store.
load_session_file_Apply(i) ==
    /\ app[i].st = "built"
    /\ LET r == LoadSession(sessFile[app[i].name])
           got(n, u, old) == IF n \in DOMAIN r.ns /\ u \in DOMAIN r.ns[n]
                             THEN r.ns[n][u] ELSE old
       IN /\ last' = Op("load_session_file", i, None, r.err, <<>>, {}, r.ns)
          /\ app' = [app EXCEPT ![i].users =
                        [u \in DOMAIN app[i].users |->
                            [cookies |-> got("_cookies", u, app[i].users[u].cookies),
                             headers |-> got("_headers", u, app[i].users[u].headers),
                             data |-> got("_data", u, app[i].users[u].data)]]]
    /\ UNCHANGED <<cfg, globalSel, projFile, sessFile>>

\* Application.load_session_file(): the bindings go to the namespace of the
\* evaluation, which no attribute of the Application reads.
load_session_file(i) ==
    /\ app[i].st = "built"
    /\ LET r == LoadSession(sessFile[app[i].name])
       IN last' = Op("load_session_file", i, None, r.err, <<>>, {}, r.ns)
    /\ UNCHANGED <<cfg, globalSel, projFile, sessFile, app>>

\* Mutant: the bindings are appended to what the file held (mode "a").
SessionFileOf_Append(a) ==
    File(sessFile[a.name].exprs
         \o <<create_hy_expression("_cookies",
                                   [u \in DOMAIN a.users |-> a.users[u].cookies]),
              create_hy_expression("_headers",
                                   [u \in DOMAIN a.users |-> a.users[u].headers]),
              create_hy_expression("_data",
                                   [u \in DOMAIN a.users |-> a.users[u].data])>>)

\* Lines 98-110: the three bindings written for the live UserStore.
SessionFileOf(a) ==
    File(<<create_hy_expression("_cookies",
                                [u \in DOMAIN a.users |-> a.users[u].cookies]),
           create_hy_expression("_headers",
                                [u \in DOMAIN a.users |-> a.users[u].headers]),
           create_hy_expression("_data",
                                [u \in DOMAIN a.users |-> a.users[u].data])>>)

\* Mutant: the file is opened for writing (and so truncated) before the load.
write_session_file_OpenFirst(i) ==
    /\ app[i].st = "built"
    /\ sessFile' = [sessFile EXCEPT ![app[i].name] = SessionFileOf(app[i])]
    /\ last' = Op("write_session_file", i, None, "none", <<>>, {"session"}, <<>>)
    /\ UNCHANGED <<cfg, globalSel, projFile, app>>

\* Application.write_session_file(): load first (a failure of the load ends
\* the call before the file is opened for writing), then overwrite.
write_session_file(i) ==
    /\ app[i].st = "built"
    /\ LET r == LoadSession(sessFile[app[i].name])
       IN IF r.err # "none"
          THEN /\ last' = Op("write_session_file", i, None, r.err, <<>>, {}, r.ns)
               /\ UNCHANGED sessFile
          ELSE /\ sessFile' = [sessFile EXCEPT ![app[i].name] = SessionFileOf(app[i])]
               /\ last' = Op("write_session_file", i, None, "none", <<>>,
                             {"session"}, r.ns)
    /\ UNCHANGED <<cfg, globalSel, projFile, app>>

\* ------------------------------------------------- two processes, one file
\* The sum of f[x] over the x of S.
RECURSIVE SumOver(_, _)
SumOver(f, S) ==
    IF S = {} THEN 0
    ELSE LET x == CHOOSE y \in S : TRUE
         IN f[x] + SumOver(f, S \ {x})

\* Characters of a string literal: the string between its two quotes.
StrText(s) == Len(s) + 2

\* Characters of a mapping literal {"k" v ...} whose values take item[k]
\* characters: the braces, each key, a space, its value, and a space between
\* two pairs.
BraceText(item) ==
    2 + SumOver([k \in DOMAIN item |-> StrText(k) + 1 + item[k]], DOMAIN item)
      + (IF DOMAIN item = {} THEN 0 ELSE Cardinality(DOMAIN item) - 1)

\* Characters of the literal of one user's mapping, and of a mapping of them
\* keyed by username.
DictText(d) == BraceText([k \in DOMAIN d |-> StrText(d[k])])
MapText(m) == BraceText([u \in DOMAIN m |-> DictText(m[u])])

\* Characters of one expression of a session file, its newline included:
\* "(setv n v)\n", "()\n", or an unbalanced ")\n".
ExprText(expr) ==
    CASE expr.kind = "setv" -> 6 + Len(expr.n) + 1 + MapText(expr.v) + 2
      [] expr.kind = "empty" -> 3
      [] OTHER -> 2

\* Characters of the text of a session file.
TextLen(exprs) ==
    SumOver([k \in 1..Len(exprs) |-> ExprText(exprs[k])], 1..Len(exprs))

\* What is left of the text exprs after its first n characters: the whole
\* expressions that follow and, before them, the rest of the expression the
\* n-th character falls in, which the reader rejects (it closes a form that
\* was never opened) unless it is only the newline.
RECURSIVE Drop(_, _)
Drop(exprs, n) ==
    IF exprs = <<>> \/ n = 0 THEN exprs
    ELSE LET s == ExprText(Head(exprs))
         IN IF n >= s THEN Drop(Tail(exprs), n - s)
            ELSE IF n = s - 1 THEN Tail(exprs)
            ELSE <<Malformed>> \o Tail(exprs)

\* Mutant: the write truncates the file again before it stores the text.
Overwrite_Truncate(old, new) == new

\* Line 113 on the file object of line 101: the text new is stored from
\* offset 0 of a file that holds old (what was written through another file
\* object since this one was opened); what old holds past the end of new
\* stays.
Overwrite(old, new) == new \o Drop(old, TextLen(new))

\* write_session_file(), line 95: the load that precedes the open. A failed
\* load ends the call.
write_session_file_load(i) ==
    /\ app[i].st = "built"
    /\ LET r == LoadSession(sessFile[app[i].name])
       IN IF r.err # "none"
          THEN /\ last' = Op("write_session_file", i, None, r.err, <<>>, {}, r.ns)
               /\ UNCHANGED app
          ELSE /\ app' = [app EXCEPT ![i].st = "ws_loaded"]
               /\ last' = Op("write_session_file:load", i, None, "none", <<>>,
                             {}, r.ns)
    /\ UNCHANGED <<cfg, globalSel, projFile, sessFile>>

\* write_session_file(), line 101: open(filename, "w") creates or truncates
\* the file.
write_session_file_open(i) ==
    /\ app[i].st = "ws_loaded"
    /\ sessFile' = [sessFile EXCEPT ![app[i].name] = File(<<>>)]
    /\ app' = [app EXCEPT ![i].st = "ws_opened"]
    /\ last' = Op("write_session_file:open", i, None, "none", <<>>, {}, <<>>)
    /\ UNCHANGED <<cfg, globalSel, projFile>>

\* write_session_file(), lines 102-113 and the end of the with block: the
\* three bindings of the live UserStore are written and the file is closed.
write_session_file_write(i) ==
    /\ app[i].st = "ws_opened"
    /\ sessFile' = [sessFile EXCEPT ![app[i].name] =
                       File(Overwrite(sessFile[app[i].name].exprs,
                                      SessionFileOf(app[i]).exprs))]
    /\ app' = [app EXCEPT ![i].st = "built"]
    /\ last' = Op("write_session_file", i, None, "none", <<>>, {"session"}, <<>>)
    /\ UNCHANGED <<cfg, globalSel, projFile>>

\* ------------------------------------------------------------ initial state
AllKeys == RequiredKeys \cup OptionalKeys

\* The project definitions a user may have written for the project.
Cfgs ==
    { [keys |-> K, users |-> U, default |-> d] :
        K \in SUBSET AllKeys,
        U \in {S \in SUBSET Names : S # {} /\ Cardinality(S) <= MaxUsers},
        d \in Names }

\* The second project: a complete definition but for its base URL.
CfgQ == [keys |-> {"_users", "_authentication"}, users |-> {"alice"},
         default |-> "alice"]

\* Project files a previous run (against any users configuration) left.
InitProjFiles ==
    {Absent} \cup {File(<<create_hy_expression("_active_user", u)>>) : u \in Names}

\* Session files found at start: none, one whose second expression does not
\* parse, one whose first does not, and one with an empty form and a name
\* bound twice.
InitSessFiles ==
    { Absent,
      File(<<Setv("_cookies", [u \in {"alice"} |-> [k \in {"k"} |-> "a b)"]]),
             Malformed,
             Setv("_data", [u \in {"alice"} |-> EmptyDict])>>),
      File(<<Malformed,
             Setv("_headers", [u \in {"alice"} |-> EmptyDict])>>),
      File(<<Setv("_data", [u \in {"bob"} |-> EmptyDict]),
             EmptyForm,
             Setv("_data", [u \in {"bob"} |-> [k \in {"k"} |-> ""]]),
             Setv("_headers", [u \in {} |-> EmptyDict])>>) }

Init ==
    /\ cfg \in {c \in [Projects -> Cfgs \cup {CfgQ}] :
                  /\ c["q"] = CfgQ
                  /\ c["p"].default \in c["p"].users}
    /\ globalSel \in Projects
    /\ projFile \in {f \in [Projects -> InitProjFiles] : f["q"] = Absent}
    /\ sessFile \in {f \in [Projects -> InitSessFiles] : f["q"] = Absent}
    /\ app = [i \in Instances |-> NoApp]
    /\ last = [op |-> "init", inst |-> 0, arg |-> None, err |-> "none",
               ran |-> <<>>, wrote |-> {}, bound |-> <<>>,
               prev |-> [op |-> "init", err |-> "none", ran |-> <<>>]]

\* One process at a time works on the projects.
Next ==
    \/ \E name \in Opt(Projects \cup {""}) : Construct(1, name)
    \/ \E username \in Opt(Names) : authenticate(1, username)
    \/ write_project_file(1)
    \/ load_session_file(1)
    \/ write_session_file(1)

Spec == Init /\ [][Next]_vars

\* Two processes on project p, each with its own orchestrator and no lock
\* between them: the steps of their write_session_file() calls interleave.
InitRace ==
    /\ Init
    /\ cfg["p"] = [keys |-> AllKeys, users |-> {"alice"}, default |-> "alice"]
    /\ globalSel = "p"
    /\ projFile["p"] = Absent
    /\ sessFile["p"] = Absent

NextRace ==
    \E i \in Instances :
        \/ app[i].st = "none" /\ Construct(i, None)
        \/ \E username \in Opt({"alice"}) : authenticate(i, username)
        \/ load_session_file(i)
        \/ write_session_file_load(i)
        \/ write_session_file_open(i)
        \/ write_session_file_write(i)

SpecRace == InitRace /\ [][NextRace]_vars

\* ------------------------------------------------------------------ claims
\* The session file f is what write_session_file() writes for a UserStore
\* holding exactly the usernames U.
WrittenFor(f, U) ==
    /\ f.exists
    /\ Len(f.exprs) = 3
    /\ \A k \in 1..3 : f.exprs[k].kind = "setv" /\ DOMAIN f.exprs[k].v = U
    /\ <<f.exprs[1].n, f.exprs[2].n, f.exprs[3].n>> = <<"_cookies", "_headers", "_data">>

\* The user record the written session file f holds for username u.
WrittenUser(f, u) ==
    [cookies |-> f.exprs[1].v[u], headers |-> f.exprs[2].v[u],
     data |-> f.exprs[3].v[u]]

\* C1: round trip. When a freshly constructed orchestrator calls
\* load_session_file() on a session file that write_session_file() wrote for
\* the same usernames, its per-user cookies, headers and data equal, user by
\* user, the ones the file was written from.
C1_RoundTrip ==
    [][ (/\ last.op = "construct" /\ last.err = "none"
         /\ last'.op = "load_session_file" /\ last'.err = "none"
         /\ WrittenFor(sessFile[app[1].name], DOMAIN app[1].users))
        => \A u \in DOMAIN app'[1].users :
              app'[1].users[u] = WrittenUser(sessFile[app[1].name], u) ]_vars

\* C2: resume across runs. A construction for the same project that follows
\* an authenticate call that returned succeeds, and its active user is the
\* user that run was executed against.
C2_ResumeAcrossRuns ==
    [][ (/\ last.op = "authenticate" /\ last.err = "none"
         /\ last'.op = "construct" /\ globalSel' = app[1].name)
        => (/\ last'.err = "none"
            /\ app'[1].st = "built"
            /\ app'[1].name = app[1].name
            /\ app'[1].active = last.ran[1]) ]_vars

\* C2 witness: a construction right after a successful authenticate resumed
\* on the user of that run, who is not the store's default.
C2_Witness ==
    /\ last.op = "construct" /\ last.err = "none"
    /\ last.prev.op = "authenticate" /\ last.prev.err = "none"
    /\ app[1].active = last.prev.ran[1]
    /\ app[1].active # cfg[app[1].name].default

\* C3 as stated: authenticate(u) for any username u the UserStore holds sets
\* the active user to u and invokes the run once, with u.
C3_AnyPresentUsername ==
    [][ \A u \in Names :
          (/\ last'.op = "authenticate" /\ last'.arg = Some(u)
           /\ u \in DOMAIN app[1].users)
          => (app'[1].active = u /\ last'.ran = <<u>>) ]_vars

\* C3 amended: authenticate(u) for any non-empty username u the UserStore
\* holds sets the active user to u, whatever the prior active user was, and
\* invokes the run exactly once, with u (never the previous active user).
C3_NonEmptyPresentUsername ==
    [][ \A u \in Names \ {""} :
          (/\ last'.op = "authenticate" /\ last'.arg = Some(u)
           /\ u \in DOMAIN app[1].users)
          => (app'[1].active = u /\ last'.ran = <<u>>) ]_vars

\* C3 witness: authenticate("alice") right after a run against bob ran
\* against alice and left alice active.
C3_Witness ==
    /\ last.op = "authenticate" /\ last.arg = Some("alice")
    /\ last.prev.op = "authenticate" /\ last.prev.ran = <<"bob">>
    /\ last.ran = <<"alice">>
    /\ app[1].active = "alice"

\* C4 as stated: authenticate(u) for any username u the UserStore does not
\* hold fails with a lookup error; the run is not started, the active user
\* is unchanged and the project file is not written.
C4_AnyAbsentUsername ==
    [][ \A u \in Names :
          (/\ last'.op = "authenticate" /\ last'.arg = Some(u)
           /\ u \notin DOMAIN app[1].users)
          => (/\ last'.err = "LookupError" /\ last'.ran = <<>>
              /\ app' = app /\ projFile' = projFile) ]_vars

\* C4 amended: authenticate(u) for any non-empty username u the UserStore
\* does not hold fails with a lookup error; the run is not started, the
\* active user is unchanged and the project file is not written.
C4_NonEmptyAbsentUsername ==
    [][ \A u \in Names \ {""} :
          (/\ last'.op = "authenticate" /\ last'.arg = Some(u)
           /\ u \notin DOMAIN app[1].users)
          => (/\ last'.err = "LookupError" /\ last'.ran = <<>>
              /\ app' = app /\ projFile' = projFile) ]_vars

\* C4 witness: an authenticate call for a non-empty unknown username ended
\* with a lookup error and without a run.
C4_Witness ==
    /\ last.op = "authenticate" /\ last.err = "LookupError"
    /\ Truthy(last.arg) /\ last.arg[1] \notin DOMAIN app[1].users
    /\ last.ran = <<>> /\ last.wrote = {}

\* C5 as stated: when the loaded config carries an active-user value naming
\* a user of the UserStore, the constructed orchestrator's active user is
\* that user, whatever the store's default.
C5_AnyPresentOverride ==
    [][ (last'.op = "construct" /\ last'.err = "none")
        => LET out == load_project(globalSel')
           IN (out.active_user # None /\ out.active_user[1] \in out.users)
              => app'[1].active = out.active_user[1] ]_vars

\* C5 amended: when the loaded config carries a non-empty active-user value
\* naming a user of the UserStore, the constructed orchestrator's active
\* user is that user, whatever the store's default.
C5_NonEmptyPresentOverride ==
    [][ (last'.op = "construct" /\ last'.err = "none")
        => LET out == load_project(globalSel')
           IN (Truthy(out.active_user) /\ out.active_user[1] \in out.users)
              => app'[1].active = out.active_user[1] ]_vars

\* C5 witness: a construction took the override of the project file, a user
\* who is not the store's default.
C5_Witness ==
    /\ last.op = "construct" /\ last.err = "none"
    /\ Truthy(load_project(app[1].name).active_user)
    /\ app[1].active = load_project(app[1].name).active_user[1]
    /\ app[1].active # cfg[app[1].name].default

\* C6: fallback. When the loaded config carried no active-user override,
\* authenticate() without a username on the constructed orchestrator runs
\* against the UserStore's default, which is the active user.
C6_DefaultFallback ==
    [][ (/\ last.op = "construct" /\ last.err = "none"
         /\ load_project(app[1].name).active_user = None
         /\ last'.op = "authenticate" /\ last'.arg = None)
        => (/\ app[1].active = cfg[app[1].name].default
            /\ last'.ran = <<cfg[app[1].name].default>>
            /\ app'[1].active = cfg[app[1].name].default) ]_vars

\* C6 witness: with no project file, authenticate() right after the
\* construction ran against the default of a store of several users.
C6_Witness ==
    /\ last.op = "authenticate" /\ last.arg = None
    /\ last.prev.op = "construct" /\ last.prev.err = "none"
    /\ ~projFile[app[1].name].exists
    /\ last.ran = <<cfg[app[1].name].default>>
    /\ Cardinality(DOMAIN app[1].users) > 1

\* C7 as stated: when the loaded config's active-user value names a user the
\* UserStore does not hold, construction fails: no fallback to the default,
\* no orchestrator, no authentication.
C7_AnyAbsentOverride ==
    [][ last'.op = "construct"
        => LET out == load_project(globalSel')
           IN (out.active_user # None /\ out.active_user[1] \notin out.users)
              => (last'.err # "none" /\ app'[1].st = "none" /\ last'.ran = <<>>) ]_vars

\* C7 amended: when the loaded config's active-user value is non-empty and
\* names a user the UserStore does not hold, construction fails: no fallback
\* to the default, no orchestrator, no authentication.
C7_NonEmptyAbsentOverride ==
    [][ last'.op = "construct"
        => LET out == load_project(globalSel')
           IN (Truthy(out.active_user) /\ out.active_user[1] \notin out.users)
              => (last'.err # "none" /\ app'[1].st = "none" /\ last'.ran = <<>>) ]_vars

\* C7 witness: a construction whose project has every required key failed
\* on the lookup of the user its project file names.
C7_Witness ==
    /\ last.op = "construct" /\ last.err = "LookupError"
    /\ app[1].st = "none"
    /\ RequiredKeys \subseteq cfg[globalSel].keys
    /\ Truthy(load_project(globalSel).active_user)
    /\ load_project(globalSel).active_user[1] \notin cfg[globalSel].users

\* authenticate() without a username returns.
AuthenticateReturns(i) == authenticate(i, None) /\ last'.err = "none"

\* C8: missing-session tolerance. load_session_file() on a project without
\* a session file raises nothing, creates no file and leaves every user's
\* mappings as they were (empty ones stay empty); and with no session file
\* authenticate() can still run and return.
C8_MissingSessionTolerance ==
    /\ [][ (last'.op = "load_session_file" /\ ~sessFile[app[1].name].exists)
           => (/\ last'.err = "none"
               /\ sessFile' = sessFile
               /\ app' = app
               /\ \A u \in DOMAIN app[1].users :
                     app[1].users[u] = EmptyUser => app'[1].users[u] = EmptyUser) ]_vars
    /\ []((app[1].st = "built" /\ ~sessFile[app[1].name].exists)
          => ENABLED AuthenticateReturns(1))

\* C8 witness: load_session_file() returned on a project without a session
\* file, every user's mappings empty.
C8_Witness ==
    /\ last.op = "load_session_file" /\ last.err = "none"
    /\ ~sessFile[app[1].name].exists
    /\ \A u \in DOMAIN app[1].users : app[1].users[u] = EmptyUser

\* C9: idempotence. A second write_project_file() right after a first leaves
\* the project file as the first left it: exactly one binding, of
\* _active_user, that reloads to the active username.
C9_WriteProjectFileIdempotent ==
    [][ (last.op = "write_project_file" /\ last'.op = "write_project_file")
        => LET f == projFile'[app[1].name]
           IN /\ f = projFile[app[1].name]
              /\ f.exists /\ Len(f.exprs) = 1
              /\ f.exprs[1].kind = "setv" /\ f.exprs[1].n = "_active_user"
              /\ LastBinding(f.exprs, "_active_user") = Some(app[1].active)
              /\ LastBinding(projFile[app[1].name].exprs, "_active_user")
                    = Some(app[1].active) ]_vars

\* C9 witness: two write_project_file() calls in a row, the file holding the
\* one binding of the active user.
C9_Witness ==
    /\ last.op = "write_project_file" /\ last.prev.op = "write_project_file"
    /\ Len(projFile[app[1].name].exprs) = 1
    /\ LastBinding(projFile[app[1].name].exprs, "_active_user") = Some(app[1].active)

\* C10: a construction whose loaded config lacks a required key fails,
\* yields no orchestrator, runs no authentication and writes neither the
\* project nor the session file; one that has every required key fails only
\* on the lookup of a present active-user value, never for an absent
\* optional key.
C10_RequiredKeys ==
    [][ last'.op = "construct"
        => LET out == load_project(globalSel')
           IN /\ ~(RequiredKeys \subseteq out.keys)
                 => (/\ last'.err # "none" /\ app'[1].st = "none"
                     /\ last'.ran = <<>>
                     /\ last'.wrote \cap {"project", "session"} = {}
                     /\ projFile' = projFile /\ sessFile' = sessFile)
              /\ (RequiredKeys \subseteq out.keys)
                 => \/ last'.err = "none" /\ app'[1].st = "built"
                    \/ last'.err = "LookupError" /\ "_active_user" \in out.keys ]_vars

\* C10 witness: a construction failed with a KeyError on a project that
\* lacks its base URL and nothing else.
C10_Witness ==
    /\ last.op = "construct" /\ last.err = "KeyError"
    /\ app[1].st = "none"
    /\ cfg[globalSel].keys = AllKeys \ {"_base_url"}

\* C11: whatever calls were made (authenticate that returned or failed,
\* write_session_file, load_session_file, write_project_file), the active
\* user of a constructed orchestrator is a user of its UserStore, and every
\* write of the project file writes the username of a user of its UserStore.
C11_ActiveUserInStore ==
    /\ [](app[1].st = "built" => app[1].active \in DOMAIN app[1].users)
    /\ [][ ("project" \in last'.wrote)
           => (/\ projFile'[app'[1].name].exists
               /\ LastBinding(projFile'[app'[1].name].exprs, "_active_user") # None
               /\ LastBinding(projFile'[app'[1].name].exprs, "_active_user")[1]
                     \in DOMAIN app'[1].users) ]_vars

\* C11 witness: write_project_file() right after an authenticate call that
\* failed on an unknown username wrote the name of a user of the store.
C11_Witness ==
    /\ last.op = "write_project_file"
    /\ last.prev.op = "authenticate" /\ last.prev.err = "LookupError"
    /\ app[1].active \in DOMAIN app[1].users
    /\ LastBinding(projFile[app[1].name].exprs, "_active_user") = Some(app[1].active)

\* C12: authenticate() never changes the session file: when the run
\* returned it wrote the project file, holding the active username, and
\* nothing else; the session file changes only in write_session_file().
C12_AuthenticateLeavesSessionFile ==
    /\ [][ last'.op = "authenticate"
           => (/\ sessFile' = sessFile
               /\ last'.wrote \subseteq {"project"}
               /\ last'.err = "none"
                  => (/\ last'.wrote = {"project"}
                      /\ projFile'[app'[1].name]
                            = File(<<Setv("_active_user", app'[1].active)>>))) ]_vars
    /\ [][ sessFile' # sessFile => last'.op = "write_session_file" ]_vars

\* C12 witness: authenticate() returned, the run left mappings in the
\* active user, the project file names that user and there is still no
\* session file.
C12_Witness ==
    /\ last.op = "authenticate" /\ last.err = "none"
    /\ app[1].users[app[1].active] # EmptyUser
    /\ LastBinding(projFile[app[1].name].exprs, "_active_user") = Some(app[1].active)
    /\ ~sessFile[app[1].name].exists

\* C13: an authenticate() call whose run did not return (it raised or was
\* interrupted) modified no file: the project file, the session file and
\* the persisted selection are what they were before the call, while the
\* project file is written in the calls whose run returned.
C13_NoPersistenceBeforeRunCompletes ==
    [][ last'.op = "authenticate"
        => (/\ last'.err # "none"
               => (/\ projFile' = projFile /\ sessFile' = sessFile
                   /\ globalSel' = globalSel /\ last'.wrote = {})
            /\ last'.err = "none" => last'.ran # <<>> /\ "project" \in last'.wrote) ]_vars

\* C13 witness: the run against the active user failed after mutating its
\* mappings; the project file still names another user.
C13_Witness ==
    /\ last.op = "authenticate" /\ last.err = "RunFailed"
    /\ last.ran = <<app[1].active>>
    /\ app[1].users[app[1].active] # EmptyUser
    /\ projFile[app[1].name].exists
    /\ LastBinding(projFile[app[1].name].exprs, "_active_user") # Some(app[1].active)

\* C14: after a write_session_file() that returned, the session file holds
\* exactly the three bindings _cookies, _headers and _data, each keyed by
\* exactly the usernames of the UserStore and holding each user's live
\* mapping; nothing of what the file held before (and the call loaded) is
\* left.
C14_SessionFileIsLiveSnapshot ==
    [][ (last'.op = "write_session_file" /\ last'.err = "none")
        => LET f == sessFile'[app[1].name]
           IN /\ WrittenFor(f, DOMAIN app[1].users)
              /\ \A u \in DOMAIN app[1].users : WrittenUser(f, u) = app[1].users[u]
              /\ last'.wrote = {"session"} ]_vars

\* C14 witness: write_session_file() loaded a file that bound _data for
\* bob, who is not a user of the store, and left the three bindings of the
\* live users, one of them with mappings of a run.
C14_Witness ==
    /\ last.op = "write_session_file" /\ last.err = "none"
    /\ "_data" \in DOMAIN last.bound /\ "bob" \in DOMAIN last.bound["_data"]
    /\ "bob" \notin DOMAIN app[1].users
    /\ WrittenFor(sessFile[app[1].name], DOMAIN app[1].users)
    /\ \E u \in DOMAIN app[1].users :
          /\ app[1].users[u] # EmptyUser
          /\ WrittenUser(sessFile[app[1].name], u) = app[1].users[u]

\* The position of the first expression of exprs the reader rejects (0 when
\* it rejects none).
FirstMalformed(exprs) ==
    IF \E k \in 1..Len(exprs) : exprs[k].kind = "malformed"
    THEN CHOOSE k \in 1..Len(exprs) :
            /\ exprs[k].kind = "malformed"
            /\ \A j \in 1..(k - 1) : exprs[j].kind # "malformed"
    ELSE 0

\* The namespace ns holds exactly the names the expressions exprs bind, each
\* with the value of its last binding there.
BindsLastOf(ns, exprs) ==
    /\ DOMAIN ns = {exprs[k].n : k \in {j \in 1..Len(exprs) : exprs[j].kind = "setv"}}
    /\ \A n \in DOMAIN ns : Some(ns[n]) = LastBinding(exprs, n)

\* C15 as stated: when the session file holds an expression the reader
\* rejects, load_session_file() fails and none of the bindings that precede
\* that expression has taken effect.
C15_NoPartialLoad ==
    [][ (/\ last'.op = "load_session_file"
         /\ FirstMalformed(sessFile[app[1].name].exprs) > 0)
        => (last'.err = "ParseFailure" /\ last'.bound = <<>>) ]_vars

\* C15 amended: when the session file holds an expression the reader
\* rejects (with an error other than the end of the stream),
\* load_session_file() fails with that error, neither caught nor retried;
\* the bindings before the first such expression have been evaluated, none
\* after it is, and no attribute of the orchestrator and no file changes.
C15_LoadStopsAtMalformed ==
    [][ (/\ last'.op = "load_session_file"
         /\ FirstMalformed(sessFile[app[1].name].exprs) > 0)
        => LET exprs == sessFile[app[1].name].exprs
               k == FirstMalformed(exprs)
           IN /\ last'.err = "ParseFailure"
              /\ BindsLastOf(last'.bound, SubSeq(exprs, 1, k - 1))
              /\ app' = app /\ sessFile' = sessFile /\ projFile' = projFile ]_vars

\* C15 witness: load_session_file() failed on the second expression of the
\* file after evaluating the first: _cookies is bound, _data (which follows
\* the rejected expression) is not.
C15_Witness ==
    /\ last.op = "load_session_file" /\ last.err = "ParseFailure"
    /\ FirstMalformed(sessFile[app[1].name].exprs) = 2
    /\ DOMAIN last.bound = {"_cookies"}

\* C16: load_session_file() on a session file whose every expression the
\* reader accepts ends without error at the end of the stream, and the
\* evaluation has then bound each name of the file (_cookies, _headers,
\* _data) to the value of its last occurrence in the file, in whatever
\* order the names appear.
C16_LastOccurrenceWins ==
    [][ (/\ last'.op = "load_session_file"
         /\ sessFile[app[1].name].exists
         /\ FirstMalformed(sessFile[app[1].name].exprs) = 0)
        => (/\ last'.err = "none"
            /\ BindsLastOf(last'.bound, sessFile[app[1].name].exprs)) ]_vars

\* C16 witness: the load of a file that binds _data twice, before _headers
\* and around an empty form, ended with _data bound to its second value.
C16_Witness ==
    /\ last.op = "load_session_file" /\ last.err = "none"
    /\ Len(sessFile[app[1].name].exprs) = 4
    /\ DOMAIN last.bound = {"_data", "_headers"}
    /\ last.bound["_data"] = [u \in {"bob"} |-> [k \in {"k"} |-> ""]]

\* C18: write_session_file() loads the session file before it opens it for
\* writing: when the file holds an expression the reader rejects the call
\* fails and writes nothing, the file is left as it was, and so is it by
\* every later operation, whose write_session_file() calls fail likewise.
C18_MalformedFileBlocksWrite ==
    [][ /\ (/\ last'.op = "write_session_file"
            /\ FirstMalformed(sessFile[app[1].name].exprs) > 0)
           => (/\ last'.err = "ParseFailure"
               /\ last'.wrote = {}
               /\ sessFile' = sessFile)
        /\ \A pr \in Projects :
              FirstMalformed(sessFile[pr].exprs) > 0 => sessFile'[pr] = sessFile[pr]
      ]_vars

\* C18 witness: two write_session_file() calls in a row failed on the
\* malformed session file, which still holds its three expressions.
C18_Witness ==
    /\ last.op = "write_session_file" /\ last.err = "ParseFailure"
    /\ last.prev.op = "write_session_file" /\ last.prev.err = "ParseFailure"
    /\ FirstMalformed(sessFile[app[1].name].exprs) = 2
    /\ Len(sessFile[app[1].name].exprs) = 3

\* C19 as stated: a construction given any name persists it as the global
\* selection whether or not the construction then succeeds; a construction
\* given no name leaves the global selection as it was.
C19_AnyNamePersisted ==
    [][ last'.op = "construct"
        => IF last'.arg # None
           THEN globalSel' = last'.arg[1] /\ last'.wrote = {"global"}
           ELSE globalSel' = globalSel /\ last'.wrote = {} ]_vars

\* C19 amended: a construction given a non-empty name persists it as the
\* global selection whether or not the construction then succeeds; a
\* construction given no name or the empty name leaves the global selection
\* as it was, and nothing else changes it.
C19_SelectionPersistedBeforeLoad ==
    [][ /\ last'.op = "construct"
           => IF Truthy(last'.arg)
              THEN globalSel' = last'.arg[1] /\ last'.wrote = {"global"}
              ELSE globalSel' = globalSel /\ last'.wrote = {}
        /\ globalSel' # globalSel
           => (last'.op = "construct" /\ Truthy(last'.arg)) ]_vars

\* C19 witness: after a run on project p, the construction for project q
\* failed on its missing base URL, and q is the global selection.
C19_Witness ==
    /\ last.op = "construct" /\ last.arg = Some("q") /\ last.err = "KeyError"
    /\ last.prev.op = "authenticate" /\ last.prev.err = "none"
    /\ app[1].st = "none"
    /\ globalSel = "q"

\* C20: load_session_file() changes nothing of the orchestrator, whatever
\* the session file holds: the users' mappings, the active user, the project
\* file, the session file and the global selection are as before the call.
C20_LoadChangesNothing ==
    [][ last'.op = "load_session_file"
        => (/\ app' = app /\ projFile' = projFile
            /\ sessFile' = sessFile /\ globalSel' = globalSel) ]_vars

\* C20 witness: load_session_file() evaluated a binding of _data for a user
\* of the store whose data mapping is not the one the file binds.
C20_Witness ==
    /\ last.op = "load_session_file"
    /\ "_data" \in DOMAIN last.bound
    /\ \E u \in DOMAIN app[1].users \cap DOMAIN last.bound["_data"] :
          app[1].users[u].data # last.bound["_data"][u]

====
